---- MODULE Spec2Model ----
(***************************************************************************)
(* Model of bindings/python/cntk/graph.py: the recursive walk dfs_walk,    *)
(* its entry points visit / find_nodes_by_name, and the iterative walk of  *)
(* output_function_graph.                                                  *)
(*                                                                         *)
(* A graph is a function from node ids 1..n to node records.  The walk     *)
(* only probes a node by duck typing, so a node is one of                  *)
(*   "function": has root_function (itself for a primitive function, the   *)
(*               primitive root for a composite one) and inputs;           *)
(*   "output"  : is_output is true and owner is a function;                *)
(*   "leaf"    : neither (parameter, constant, input variable).            *)
(* The visitor is the set of nodes on which it returns True; for           *)
(* find_nodes_by_name it is the set of nodes whose name is node_name.      *)
(***************************************************************************)
EXTENDS Naturals, Integers, Sequences, FiniteSets, TLC

\* ---- bounds ----
\* the generated graphs: every well-formed graph of NumNodes nodes whose
\* functions have at most MaxInputs inputs; the named graphs below are walked
\* whatever these two are
NumNodes == 2
MaxInputs == 1
\* the calls of visit in flight at once
NumCalls == 2
\* the lines output_function_graph may generate before the model stops it
MaxLines == 7

\* num_quantization_bits is drawn from 0..MaxBits and
\* parallelization_start_after_sample_count from 0..MaxSampleCount
MaxBits == 33
MaxSampleCount == 1

\* ---- node records ----
FunctionNode(r, ins) == [kind |-> "function", root |-> r, inputs |-> ins, owner |-> 0]
OutputNode(f) == [kind |-> "output", root |-> 0, inputs |-> <<>>, owner |-> f]
LeafNode == [kind |-> "leaf", root |-> 0, inputs |-> <<>>, owner |-> 0]

Nodes(g) == DOMAIN g

\* hasattr(node, 'root_function')
HasRootFunction(g, n) == g[n].kind = "function"
\* hasattr(node, 'is_output') and node.is_output
IsOutput(g, n) == g[n].kind = "output"

SeqsUpTo(S, k) == UNION {[1..m -> S] : m \in 0..k}

NodeRecs(N, n) ==
    {FunctionNode(n, ins) : ins \in SeqsUpTo(1..N, MaxInputs)}
    \cup {FunctionNode(r, <<>>) : r \in (1..N) \ {n}}
    \cup {OutputNode(f) : f \in 1..N}
    \cup {LeafNode}

\* the root of a function is a primitive function (its own root); the owner
\* of an output is a primitive function
WellFormed(g) ==
    \A n \in Nodes(g) :
        /\ g[n].kind = "function" =>
              /\ g[g[n].root].kind = "function"
              /\ g[g[n].root].root = g[n].root
        /\ g[n].kind = "output" =>
              /\ g[g[n].owner].kind = "function"
              /\ g[g[n].owner].root = g[n].owner

GeneratedGraphs ==
    {g \in [1..NumNodes -> UNION {NodeRecs(NumNodes, n) : n \in 1..NumNodes}] :
        /\ \A n \in 1..NumNodes : g[n] \in NodeRecs(NumNodes, n)
        /\ WellFormed(g)}

\* Add(MatMul(X, W), B): 1 = Add, 2 = MatMul, 3 = X, 4 = W, 5 = B
AddGraph ==
    <<FunctionNode(1, <<2, 5>>), FunctionNode(2, <<3, 4>>), LeafNode, LeafNode, LeafNode>>

\* R = Combine(P, Q), P and Q both consume the output O of F:
\* 1 = R, 2 = P, 3 = Q, 4 = O, 5 = F
DiamondGraph ==
    <<FunctionNode(1, <<2, 3>>), FunctionNode(2, <<4>>), FunctionNode(3, <<4>>),
      OutputNode(5), FunctionNode(5, <<>>)>>

\* a recurrent network: the composite 1 has root 2 = Plus(X, PastValue(Plus)):
\* 2 = Plus, 3 = X, 4 = output of PastValue, 5 = PastValue, 6 = output of Plus
RecurrentGraph ==
    <<FunctionNode(2, <<>>), FunctionNode(2, <<3, 4>>), LeafNode, OutputNode(5),
      FunctionNode(5, <<6>>), OutputNode(2)>>

\* S(C, R) where the composite C has the root R: 1 = S, 2 = C, 3 = R, 4 = X
SharedRootGraph ==
    <<FunctionNode(1, <<2, 3>>), FunctionNode(3, <<>>), FunctionNode(3, <<4>>), LeafNode>>

NamedGraphs == {AddGraph, DiamondGraph, RecurrentGraph, SharedRootGraph}

Graphs == GeneratedGraphs \cup NamedGraphs

Calls == 1..NumCalls

VARIABLES
    graph,      \* the graph the calls walk (never modified)
    visitor,    \* the nodes on which the visitor returns True
    callers,    \* per call: the nodes its caller may pass to visit
    status,     \* per call: "idle", "running", "returned"
    start,      \* per call: the node visit was called with (0 before the call)
    stack,      \* per call: the frames of dfs_walk, innermost last
    visited,    \* the visited sets, by reference
    accum,      \* per call: the accumulator list
    passed,     \* per call and node: times the node passed the visited guard
    evals       \* per call and node: times the visitor was applied to the node

\* output_function_graph(node, dot_file_path, png_file_path)
VARIABLES
    xphase,     \* "idle", "import", "loop", "write", "returned", "raised"
    xstart,     \* the node output_function_graph was called with (0 before)
    xdot,       \* dot = (dot_file_path != None)
    xpng,       \* png = (png_file_path != None)
    xstack,     \* stack, its top last
    xvisited,   \* visited
    xmodel,     \* model: the lines generated so far, in order
    xdotobj,    \* dot_object: the records added so far, in order
    xpopped,    \* per node: times it was popped and passed the visited test
    xwrites,    \* the files written so far, in order
    xresult     \* the returned text, as its lines

xvars == <<xphase, xstart, xdot, xpng, xstack, xvisited, xmodel, xdotobj, xpopped,
           xwrites, xresult>>

\* output_function_graph: whether pydot_ng has been imported (line 150)
VARIABLES ximported

\* a call of png_graph: its position, the calls it has made on the dot object
\* and the files it has written
VARIABLES pphase, pbackend, pwrites

pvars == <<pphase, pbackend, pwrites>>

\* a call of data_parallel_distributed_trainer: its position, its arguments,
\* and the communicators and trainers that cntk_py was asked to create
VARIABLES tphase, targs, tcomms, ttrainers

tvars == <<tphase, targs, tcomms, ttrainers>>

vars == <<graph, visitor, callers, status, start, stack, visited, accum, passed, evals,
          xvars, ximported, pvars, tvars>>

\* a frame of dfs_walk: the argument, the local `node` (reassigned on line 23),
\* the position in the body and the index of the next input to walk
Frame(n) == [arg |-> n, node |-> n, pc |-> "guard", idx |-> 1]

\* mutant: one visited set shared by every call (a module-level set)
SharedVisitedRef(c) == 1

\* the set() that visit creates on line 106, by reference: one per call
VisitedRef(c) == c

\* the walk never nests deeper than one frame per node plus the entry
DepthCap(g) == Cardinality(Nodes(g)) + 1

Top(c) == stack[c][Len(stack[c])]
Pop(s) == SubSeq(s, 1, Len(s) - 1)
SetTop(s, f) == [s EXCEPT ![Len(s)] = f]

\* no call of data_parallel_distributed_trainer yet
NoArgs == [use_async |-> FALSE, bits |-> 0, start_count |-> 0]

InitOn(G) ==
    /\ graph \in G
    /\ visitor \in SUBSET Nodes(graph)
    /\ status = [c \in Calls |-> "idle"]
    /\ start = [c \in Calls |-> 0]
    /\ stack = [c \in Calls |-> <<>>]
    /\ visited = [c \in Calls |-> {}]
    /\ accum = [c \in Calls |-> <<>>]
    /\ passed = [c \in Calls |-> [n \in Nodes(graph) |-> 0]]
    /\ evals = [c \in Calls |-> [n \in Nodes(graph) |-> 0]]
    /\ xphase = "idle"
    /\ xstart = 0
    /\ xdot = FALSE
    /\ xpng = FALSE
    /\ xstack = <<>>
    /\ xvisited = {}
    /\ xmodel = <<>>
    /\ xdotobj = <<>>
    /\ xpopped = [n \in Nodes(graph) |-> 0]
    /\ xwrites = <<>>
    /\ xresult = <<>>
    /\ ximported = FALSE
    /\ pphase = "idle"
    /\ pbackend = <<>>
    /\ pwrites = <<>>
    /\ tphase = "idle"
    /\ targs = NoArgs
    /\ tcomms = <<>>
    /\ ttrainers = <<>>

\* one call of visit, on the node the graph is numbered from
Init ==
    /\ InitOn(Graphs)
    /\ callers = [c \in Calls |-> IF c = 1 THEN {1} ELSE {}]

\* visit(node, visitor): nodes = [], dfs_walk(node, visitor, nodes, set())
Visit(c, n) ==
    /\ status[c] = "idle"
    /\ n \in callers[c]
    /\ status' = [status EXCEPT ![c] = "running"]
    /\ start' = [start EXCEPT ![c] = n]
    /\ stack' = [stack EXCEPT ![c] = <<Frame(n)>>]
    /\ accum' = [accum EXCEPT ![c] = <<>>]
    /\ UNCHANGED <<xvars, ximported, pvars, tvars, graph, visitor, callers, visited, passed, evals>>

\* leaving the outermost frame returns from dfs_walk to visit, which returns nodes
Leave(c) ==
    /\ stack' = [stack EXCEPT ![c] = Pop(stack[c])]
    /\ status' = [status EXCEPT ![c] = IF Len(stack[c]) = 1 THEN "returned" ELSE "running"]

\* lines 19-20: if node in visited: return
GuardReturn(c) ==
    /\ status[c] = "running"
    /\ Top(c).pc = "guard"
    /\ Top(c).arg \in visited[VisitedRef(c)]
    /\ Leave(c)
    /\ UNCHANGED <<xvars, ximported, pvars, tvars, graph, visitor, callers, start, visited, accum, passed, evals>>

\* mutant: the elif branch of lines 26-27 is missing; an output variable is
\* treated as a leaf
AfterMarkNoOwner(g, f) ==
    IF HasRootFunction(g, f.arg)
    THEN [f EXCEPT !.node = g[f.arg].root, !.pc = "inputs", !.idx = 1]
    ELSE [f EXCEPT !.pc = "visit"]

\* lines 21-27 up to the first recursive call: visited.add(node), then the
\* branch on the node's shape; line 23 rebinds node to node.root_function
AfterMark(g, f) ==
    IF HasRootFunction(g, f.arg)
    THEN [f EXCEPT !.node = g[f.arg].root, !.pc = "inputs", !.idx = 1]
    ELSE IF IsOutput(g, f.arg)
    THEN [f EXCEPT !.pc = "owner"]
    ELSE [f EXCEPT !.pc = "visit"]

\* mutant: the visited.add(node) of line 21 is missing
MarkVisitedNoAdd(c) ==
    /\ status[c] = "running"
    /\ Top(c).pc = "guard"
    /\ Top(c).arg \notin visited[VisitedRef(c)]
    /\ passed' = [passed EXCEPT ![c][Top(c).arg] = @ + 1]
    /\ stack' = [stack EXCEPT ![c] = SetTop(@, AfterMark(graph, Top(c)))]
    /\ UNCHANGED <<xvars, ximported, pvars, tvars, graph, visitor, callers, status, start, visited, accum, evals>>

MarkVisited(c) ==
    /\ status[c] = "running"
    /\ Top(c).pc = "guard"
    /\ Top(c).arg \notin visited[VisitedRef(c)]
    /\ visited' = [visited EXCEPT ![VisitedRef(c)] = @ \cup {Top(c).arg}]
    /\ passed' = [passed EXCEPT ![c][Top(c).arg] = @ + 1]
    /\ stack' = [stack EXCEPT ![c] = SetTop(@, AfterMark(graph, Top(c)))]
    /\ UNCHANGED <<xvars, ximported, pvars, tvars, graph, visitor, callers, status, start, accum, evals>>

\* mutant: the inputs are walked from the last to the first
WalkInputReversed(c) ==
    /\ status[c] = "running"
    /\ Top(c).pc = "inputs"
    /\ Top(c).idx <= Len(graph[Top(c).node].inputs)
    /\ Len(stack[c]) < DepthCap(graph)
    /\ stack' = [stack EXCEPT ![c] =
                    Append(SetTop(@, [Top(c) EXCEPT !.idx = @ + 1]),
                           Frame(graph[Top(c).node].inputs[
                               Len(graph[Top(c).node].inputs) + 1 - Top(c).idx]))]
    /\ UNCHANGED <<xvars, ximported, pvars, tvars, graph, visitor, callers, status, start, visited, accum, passed, evals>>

\* lines 24-25: for child in node.inputs: dfs_walk(child, ...)
WalkInput(c) ==
    /\ status[c] = "running"
    /\ Top(c).pc = "inputs"
    /\ Top(c).idx <= Len(graph[Top(c).node].inputs)
    /\ Len(stack[c]) < DepthCap(graph)
    /\ stack' = [stack EXCEPT ![c] =
                    Append(SetTop(@, [Top(c) EXCEPT !.idx = @ + 1]),
                           Frame(graph[Top(c).node].inputs[Top(c).idx]))]
    /\ UNCHANGED <<xvars, ximported, pvars, tvars, graph, visitor, callers, status, start, visited, accum, passed, evals>>

\* the for loop of line 24 is exhausted
InputsDone(c) ==
    /\ status[c] = "running"
    /\ Top(c).pc = "inputs"
    /\ Top(c).idx > Len(graph[Top(c).node].inputs)
    /\ stack' = [stack EXCEPT ![c] = SetTop(@, [Top(c) EXCEPT !.pc = "visit"])]
    /\ UNCHANGED <<xvars, ximported, pvars, tvars, graph, visitor, callers, status, start, visited, accum, passed, evals>>

\* lines 26-27: dfs_walk(node.owner, ...)
WalkOwner(c) ==
    /\ status[c] = "running"
    /\ Top(c).pc = "owner"
    /\ Len(stack[c]) < DepthCap(graph)
    /\ stack' = [stack EXCEPT ![c] =
                    Append(SetTop(@, [Top(c) EXCEPT !.pc = "visit"]),
                           Frame(graph[Top(c).node].owner))]
    /\ UNCHANGED <<xvars, ximported, pvars, tvars, graph, visitor, callers, status, start, visited, accum, passed, evals>>

\* mutant: accum.insert(0, node) instead of accum.append(node)
ApplyVisitorPrepend(c) ==
    /\ status[c] = "running"
    /\ Top(c).pc = "visit"
    /\ evals' = [evals EXCEPT ![c][Top(c).node] = @ + 1]
    /\ accum' = [accum EXCEPT ![c] =
                    IF Top(c).node \in visitor THEN <<Top(c).node>> \o @ ELSE @]
    /\ Leave(c)
    /\ UNCHANGED <<xvars, ximported, pvars, tvars, graph, visitor, callers, start, visited, passed>>

\* lines 29-30: if visitor(node): accum.append(node), then the frame returns
ApplyVisitor(c) ==
    /\ status[c] = "running"
    /\ Top(c).pc = "visit"
    /\ evals' = [evals EXCEPT ![c][Top(c).node] = @ + 1]
    /\ accum' = [accum EXCEPT ![c] =
                    IF Top(c).node \in visitor THEN Append(@, Top(c).node) ELSE @]
    /\ Leave(c)
    /\ UNCHANGED <<xvars, ximported, pvars, tvars, graph, visitor, callers, start, visited, passed>>

Next ==
    \/ \E c \in Calls, n \in Nodes(graph) : Visit(c, n)
    \/ \E c \in Calls : GuardReturn(c)
    \/ \E c \in Calls : MarkVisited(c)
    \/ \E c \in Calls : WalkInput(c)
    \/ \E c \in Calls : InputsDone(c)
    \/ \E c \in Calls : WalkOwner(c)
    \/ \E c \in Calls : ApplyVisitor(c)

Spec == Init /\ [][Next]_vars


\* NumCalls calls of visit in flight over the same graph, call c from node 1
\* or from node c; the visitor is always-true or true of one node only
InitPar ==
    /\ InitOn(NamedGraphs)
    /\ visitor \in {Nodes(graph)} \cup {{n} : n \in Nodes(graph)}
    /\ callers = [c \in Calls |-> {1, c} \cap Nodes(graph)]

SpecPar == InitPar /\ [][Next]_vars

\* the interpreter runs a started call to its end
SpecLive == Init /\ [][Next]_vars /\ WF_vars(Next)

\* ------------------------------------------------------------------------
\* output_function_graph
\* ------------------------------------------------------------------------

\* node.outputs[0]: the first output variable of the graph that the function
\* owns; 0 stands for an output no node of the graph consumes
FirstOutput(g, r) ==
    LET outs == {m \in Nodes(g) : IsOutput(g, m) /\ g[m].owner = r}
    IN  IF outs = {} THEN 0 ELSE CHOOSE m \in outs : \A k \in outs : m <= k

\* lines 181-201: op_name(uid of each input, ...) -> uid of the first output
LineOf(g, r) == [op |-> r, ins |-> g[r].inputs, out |-> FirstOutput(g, r)]

\* the records of dot_object
OpRecord(r) == [rec |-> "node", id |-> <<"op", r>>]
VarRecord(n) == [rec |-> "node", id |-> <<"var", n>>]
EdgeRecord(a, b) == [rec |-> "edge", src |-> a.id, dst |-> b.id]

\* lines 188-198: for each input the record of the child and the edge
\* child -> operator
RECURSIVE ChildRecords(_, _, _)
ChildRecords(g, r, i) ==
    IF i > Len(g[r].inputs) THEN <<>>
    ELSE <<VarRecord(g[r].inputs[i]), EdgeRecord(VarRecord(g[r].inputs[i]), OpRecord(r))>>
         \o ChildRecords(g, r, i + 1)

\* mutant: line 206 (the edge operator -> output) is missing
DotRecordsNoOutputEdge(g, r) ==
    <<OpRecord(r)>> \o ChildRecords(g, r, 1) \o <<VarRecord(FirstOutput(g, r))>>

\* lines 182-206 with (dot or png): the operator's record, the children's, then
\* the record of the first output and the edge operator -> output
DotRecords(g, r) ==
    <<OpRecord(r)>> \o ChildRecords(g, r, 1)
    \o <<VarRecord(FirstOutput(g, r)),
         EdgeRecord(OpRecord(r), VarRecord(FirstOutput(g, r)))>>

\* lines 161-167: model = '', stack = [node], accum = [], visited = set()
EnterLoop(n) ==
    /\ xphase' = "loop"
    /\ xstack' = <<n>>
    /\ xvisited' = {}
    /\ xmodel' = <<>>

\* lines 144-147: the call, up to the test (dot or png)
OutputFunctionGraph(n, d, p) ==
    /\ xphase = "idle"
    /\ n = 1
    /\ xstart' = n
    /\ xdot' = d
    /\ xpng' = p
    /\ IF d \/ p
       THEN /\ xphase' = "import"
            /\ UNCHANGED <<xstack, xvisited, xmodel>>
       ELSE EnterLoop(n)
    /\ UNCHANGED <<xdotobj, xpopped, xwrites, xresult>>
    /\ UNCHANGED <<graph, visitor, callers, status, start, stack, visited, accum,
                   passed, evals>>
    /\ UNCHANGED <<ximported, pvars, tvars>>

\* lines 149-158: import pydot_ng succeeds; the dot object is created
ImportBackend ==
    /\ xphase = "import"
    /\ EnterLoop(xstart)
    /\ xdotobj' = <<>>
    /\ ximported' = TRUE
    /\ UNCHANGED <<xstart, xdot, xpng, xpopped, xwrites, xresult>>
    /\ UNCHANGED <<graph, visitor, callers, status, start, stack, visited, accum,
                   passed, evals>>
    /\ UNCHANGED <<pvars, tvars>>

\* mutant: the backend is imported where it is first used (line 183), inside
\* the loop
ImportErrorInLoop ==
    /\ xphase = "loop"
    /\ xdot \/ xpng
    /\ \E n \in Nodes(graph) : xpopped[n] > 0
    /\ xphase' = "raised"
    /\ UNCHANGED <<xstart, xdot, xpng, xstack, xvisited, xmodel, xdotobj, xpopped,
                   xwrites, xresult>>
    /\ UNCHANGED <<graph, visitor, callers, status, start, stack, visited, accum,
                   passed, evals>>
    /\ UNCHANGED <<ximported, pvars, tvars>>

\* lines 150-152: import pydot_ng fails; ImportError is raised
ImportError ==
    /\ xphase = "import"
    /\ xphase' = "raised"
    /\ UNCHANGED <<xstart, xdot, xpng, xstack, xvisited, xmodel, xdotobj, xpopped,
                   xwrites, xresult>>
    /\ UNCHANGED <<graph, visitor, callers, status, start, stack, visited, accum,
                   passed, evals>>
    /\ UNCHANGED <<ximported, pvars, tvars>>

\* lines 169-214: one iteration of the while loop
LoopIteration ==
    /\ xphase = "loop"
    /\ xstack # <<>>
    /\ LET node == xstack[Len(xstack)]
           rest == Pop(xstack)
       IN  IF node \in xvisited
           THEN /\ xstack' = rest
                /\ UNCHANGED <<xvisited, xmodel, xdotobj, xpopped>>
           ELSE /\ xpopped' = [xpopped EXCEPT ![node] = @ + 1]
                /\ UNCHANGED xvisited   \* lines 172-214 never add to visited
                /\ IF HasRootFunction(graph, node)
                   THEN LET r == graph[node].root
                        IN  /\ Len(xmodel) < MaxLines
                            /\ xstack' = rest \o graph[r].inputs
                            /\ xmodel' = Append(xmodel, LineOf(graph, r))
                            /\ xdotobj' = IF xdot \/ xpng
                                          THEN xdotobj \o DotRecords(graph, r)
                                          ELSE xdotobj
                   ELSE /\ xstack' = IF IsOutput(graph, node)
                                     THEN Append(rest, graph[node].owner)
                                     ELSE rest
                        /\ UNCHANGED <<xmodel, xdotobj>>
    /\ UNCHANGED <<xphase, xstart, xdot, xpng, xwrites, xresult>>
    /\ UNCHANGED <<graph, visitor, callers, status, start, stack, visited, accum,
                   passed, evals>>
    /\ UNCHANGED <<ximported, pvars, tvars>>

\* line 169 finds the stack empty; lines 216-217 touch only the unused accum
LoopExit ==
    /\ xphase = "loop"
    /\ xstack = <<>>
    /\ xphase' = "write"
    /\ UNCHANGED <<xstart, xdot, xpng, xstack, xvisited, xmodel, xdotobj, xpopped,
                   xwrites, xresult>>
    /\ UNCHANGED <<graph, visitor, callers, status, start, stack, visited, accum,
                   passed, evals>>
    /\ UNCHANGED <<ximported, pvars, tvars>>

\* mutant: the [::-1] of line 225 is missing
NotReversed(s) == s

\* line 225: [::-1]
RECURSIVE Reverse(_)
Reverse(s) == IF s = <<>> THEN <<>> ELSE Append(Reverse(Tail(s)), Head(s))

\* model.split("\n") of the lines, each ended by "\n": the lines and a last
\* empty string
EmptyLine == [op |-> 0, ins |-> <<>>, out |-> 0]
SplitLines(m) == Append(m, EmptyLine)

\* mutant: lines 221-222 (write_raw) placed before lines 219-220 (write_png)
WritesDotFirst(d, p) ==
    (IF d THEN <<"dot">> ELSE <<>>) \o (IF p THEN <<"png">> ELSE <<>>)

\* lines 219-225: write_png if png, write_raw if dot, then the lines reversed
WritesOf(d, p) ==
    (IF p THEN <<"png">> ELSE <<>>) \o (IF d THEN <<"dot">> ELSE <<>>)

WriteAndReturn ==
    /\ xphase = "write"
    /\ xwrites' = xwrites \o WritesOf(xdot, xpng)
    /\ xresult' = Reverse(SplitLines(xmodel))
    /\ xphase' = "returned"
    /\ UNCHANGED <<xstart, xdot, xpng, xstack, xvisited, xmodel, xdotobj, xpopped>>
    /\ UNCHANGED <<graph, visitor, callers, status, start, stack, visited, accum,
                   passed, evals>>
    /\ UNCHANGED <<ximported, pvars, tvars>>

\* the names bound at module level in graph.py (the def statements; the file
\* has no module-level import or assignment)
ModuleNames ==
    {"dfs_walk", "build_graph", "png_graph", "visit", "find_nodes_by_name",
     "output_function_graph"}

\* the name that lines 65, 68 and 87 call
WalkPlotName == "dfs_walk_plot"

\* lines 81-88 of png_graph with pydot importable: the Dot object and its
\* node defaults, then the call of line 87. A name that the module does not
\* bind raises NameError there and line 88 is not reached.
PngGraph(n) ==
    /\ pphase = "idle"
    /\ n = 1
    /\ IF WalkPlotName \in ModuleNames
       THEN /\ pbackend' = <<"Dot", "set_node_defaults", "write_png">>
            /\ pwrites' = <<"png">>
            /\ pphase' = "returned"
       ELSE /\ pbackend' = <<"Dot", "set_node_defaults">>
            /\ pwrites' = <<>>
            /\ pphase' = "NameError"
    /\ UNCHANGED <<graph, visitor, callers, status, start, stack, visited, accum,
                   passed, evals>>
    /\ UNCHANGED <<xvars, ximported, tvars>>

\* line 81: import pydot fails
PngGraphImportError(n) ==
    /\ pphase = "idle"
    /\ n = 1
    /\ pphase' = "ImportError"
    /\ UNCHANGED <<pbackend, pwrites>>
    /\ UNCHANGED <<graph, visitor, callers, status, start, stack, visited, accum,
                   passed, evals>>
    /\ UNCHANGED <<xvars, ximported, tvars>>

\* no call of visit; the visitor of line 164 is always true
InitExport ==
    /\ InitOn(Graphs)
    /\ visitor = Nodes(graph)
    /\ callers = [c \in Calls |-> {}]

\* the caller plots the model once, with output_function_graph or with png_graph
NextExport ==
    \/ pphase = "idle" /\ \E d \in BOOLEAN, p \in BOOLEAN : OutputFunctionGraph(1, d, p)
    \/ xphase = "idle" /\ PngGraph(1)
    \/ xphase = "idle" /\ PngGraphImportError(1)
    \/ ImportBackend
    \/ ImportError
    \/ LoopIteration
    \/ LoopExit
    \/ WriteAndReturn

SpecExport == InitExport /\ [][NextExport]_vars

\* ------------------------------------------------------------------------
\* dfs_walk as a function of (graph, node, visitor, accum, visited)
\* ------------------------------------------------------------------------
RECURSIVE DfsWalk(_, _, _, _)
RECURSIVE DfsInputs(_, _, _, _, _)

\* for child in node.inputs: dfs_walk(child, visitor, accum, visited)
DfsInputs(g, ins, i, vis, st) ==
    IF i > Len(ins) THEN st ELSE DfsInputs(g, ins, i + 1, vis, DfsWalk(g, ins[i], vis, st))

\* st = [visited, accum]; the result is their value when the call returns
DfsWalk(g, n, vis, st) ==
    IF n \in st.visited THEN st
    ELSE LET marked == [st EXCEPT !.visited = @ \cup {n}]
             node == IF HasRootFunction(g, n) THEN g[n].root ELSE n
             walked == IF HasRootFunction(g, n)
                       THEN DfsInputs(g, g[node].inputs, 1, vis, marked)
                       ELSE IF IsOutput(g, n)
                       THEN DfsWalk(g, g[n].owner, vis, marked)
                       ELSE marked
         IN  IF node \in vis THEN [walked EXCEPT !.accum = Append(@, node)] ELSE walked

\* visit(node, visitor) run on its own
VisitAlone(g, n, vis) == DfsWalk(g, n, vis, [visited |-> {}, accum |-> <<>>]).accum

\* ------------------------------------------------------------------------
\* vocabulary of the properties
\* ------------------------------------------------------------------------
Range(s) == {s[i] : i \in 1..Len(s)}

\* the edges the walk follows: operator -> input, output -> owner
Succ(g, n) ==
    IF HasRootFunction(g, n) THEN Range(g[g[n].root].inputs)
    ELSE IF IsOutput(g, n) THEN {g[n].owner}
    ELSE {}

RECURSIVE Closure(_, _)
Closure(g, S) ==
    LET T == S \cup UNION {Succ(g, n) : n \in S}
    IN  IF T = S THEN S ELSE Closure(g, T)

Reachable(g, n) == Closure(g, {n})

\* no node of the part reachable from n lies on a cycle
Acyclic(g, n) == \A m \in Reachable(g, n) : m \notin Closure(g, Succ(g, m))

Preds(g, n) == {m \in Nodes(g) : n \in Succ(g, m)}

Count(s, x) == Cardinality({i \in 1..Len(s) : s[i] = x})

\* the node dfs_walk applies the visitor to when it walks n
Recorded(g, n) == IF HasRootFunction(g, n) THEN g[n].root ELSE n

\* the nodes the walk from n records: the reachable nodes, a composite one
\* taken as its root function
RecordedReachable(g, n) == {Recorded(g, m) : m \in Reachable(g, n)}

Returned(c) == status[c] = "returned"

\* ------------------------------------------------------------------------
\* properties of visit / dfs_walk
\* ------------------------------------------------------------------------

\* C1: no node passes the 'node in visited' guard of dfs_walk twice, and when
\* visit returns the visited set is the set of nodes reachable from start,
\* each of which passed the guard exactly once.
C1_VisitedOnce ==
    /\ \A n \in Nodes(graph) : passed[1][n] <= 1
    /\ Returned(1) =>
          /\ visited[1] = Reachable(graph, start[1])
          /\ \A n \in Reachable(graph, start[1]) : passed[1][n] = 1

\* a finished walk over a diamond: a visited node with two visited predecessors
C1_Witness ==
    /\ Returned(1)
    /\ \E n \in visited[1] : Cardinality(Preds(graph, n) \cap visited[1]) >= 2
    /\ Cardinality(visited[1]) >= 3

\* C2 (as claimed): the returned sequence contains each reachable node that
\* satisfies the visitor exactly once and no other node.  A composite node
\* counts as the root function the walk records for it, the reading most
\* favourable to the code.
C2_ExactlyTheMatches ==
    Returned(1) =>
        \A r \in Nodes(graph) :
            Count(accum[1], r) =
                IF r \in visitor /\ r \in RecordedReachable(graph, start[1])
                THEN 1 ELSE 0

C4_EvaluatedOnce ==
    Returned(1) =>
        \A r \in RecordedReachable(graph, start[1]) : evals[1][r] = 1

\* C5: every call of visit returns, also on a graph with a cycle.
C5_Terminates == <>Returned(1)

\* a walk that returned although a cycle is reachable from its start
C5_Witness == Returned(1) /\ ~Acyclic(graph, start[1])

\* C6: each of the interleaved calls returns the sequence visit returns for
\* its start node when it runs alone, so two calls from the same node agree.
C6_Independent ==
    \A c \in Calls :
        Returned(c) =>
            /\ accum[c] = VisitAlone(graph, start[c], visitor)
            /\ \A d \in Calls :
                  (Returned(d) /\ start[d] = start[c]) => accum[d] = accum[c]

\* a call that returned while another one, over common nodes, was under way
C6_Witness ==
    /\ Returned(2)
    /\ status[1] = "running"
    /\ visited[1] \cap visited[2] # {}
    /\ visited[1] # {} /\ Len(accum[2]) >= 2

\* C7: visit(Add, always-true) on Add(MatMul(X, W), B) returns
\* [X, W, MatMul, B, Add].
C7_AddExample ==
    (Returned(1) /\ graph = AddGraph /\ start[1] = 1 /\ visitor = Nodes(graph))
        => accum[1] = <<3, 4, 2, 5, 1>>

\* the walk of the Add graph from Add with the always-true visitor returned
C7_Witness ==
    Returned(1) /\ graph = AddGraph /\ start[1] = 1 /\ visitor = Nodes(graph)

\* ------------------------------------------------------------------------
\* properties of output_function_graph
\* ------------------------------------------------------------------------

\* the operators whose line the text should hold: the root functions of the
\* function nodes reachable from the start node
ReachableOperators(g, n) ==
    {g[m].root : m \in {k \in Reachable(g, n) : HasRootFunction(g, k)}}

\* C8 (as claimed): no node is popped from the stack and processed more than
\* once during one call of output_function_graph.
C8_ProcessedOnce == \A n \in Nodes(graph) : xpopped[n] <= 1

\* C9 (as claimed): the returned text holds exactly one line for every
\* operator reachable from the start node and no line twice.
C9_OneLinePerOperator ==
    xphase = "returned" =>
        \A r \in Nodes(graph) :
            Cardinality({i \in 1..Len(xresult) : xresult[i].op = r}) =
                IF r \in ReachableOperators(graph, xstart) THEN 1 ELSE 0

\* C10: when the import of the backend fails, no node has been popped from the
\* stack, no line or record has been generated and no file has been written.
C10_ImportErrorFirst ==
    xphase = "raised" =>
        /\ xdot \/ xpng
        /\ \A n \in Nodes(graph) : xpopped[n] = 0
        /\ xstack = <<>> /\ xmodel = <<>> /\ xdotobj = <<>>
        /\ xwrites = <<>>

\* the call failed with the import error, a DOT path given, on a start node
\* that has inputs to walk
C10_Witness ==
    /\ xphase = "raised"
    /\ xdot
    /\ Succ(graph, xstart) # {}

\* C11: with the plotting backend available, a call of png_graph completes
\* without raising and has then written the PNG file exactly once.
C11_PngWrittenOnce ==
    pphase \notin {"idle", "ImportError"}
        => pphase = "returned" /\ pwrites = <<"png">>

\* C12: the node on which the predicate is evaluated, and which is appended, is
\* the node that the same frame marked visited; so with an always-true
\* predicate the nodes of the returned sequence are the visited set, and a
\* start node that satisfies the predicate is the last element returned.
C12_EvaluatedIsMarked ==
    \A c \in Calls :
        /\ \A i \in 1..Len(stack[c]) :
               stack[c][i].pc = "visit" => stack[c][i].node = stack[c][i].arg
        /\ Returned(c) /\ visitor = Nodes(graph)
               => Range(accum[c]) = visited[VisitedRef(c)]
        /\ Returned(c) /\ start[c] \in visitor
               => /\ accum[c] # <<>>
                  /\ accum[c][Len(accum[c])] = start[c]

\* the frames of call c that walk an output variable and are past line 21
OutputFrames(c) ==
    {i \in 1..Len(stack[c]) :
        IsOutput(graph, stack[c][i].arg) /\ stack[c][i].pc # "guard"}

\* the part of C13 about one level of the walk: the frame of an output
\* variable has marked it, keeps it as its node, walks no input, calls
\* dfs_walk on the owner only, and reaches the predicate only when that call
\* has returned.
OutputLevel(c) ==
    \A i \in OutputFrames(c) :
        LET f == stack[c][i]
        IN  /\ f.arg \in visited[VisitedRef(c)]
            /\ f.node = f.arg
            /\ f.idx = 1
            /\ f.pc \in {"owner", "visit"}
            /\ i < Len(stack[c]) =>
                   f.pc = "visit" /\ stack[c][i + 1].arg = graph[f.arg].owner
            /\ (f.pc = "visit" /\ i = Len(stack[c])) =>
                   graph[f.arg].owner \in visited[VisitedRef(c)]

\* in the returned sequence every occurrence of an output variable comes
\* after its owner, when the owner satisfies the predicate
OwnerFirst(c) ==
    \A n \in Nodes(graph) :
        (IsOutput(graph, n) /\ Recorded(graph, graph[n].owner) \in visitor)
        => \A j \in 1..Len(accum[c]) :
              accum[c][j] = n =>
                  \E i \in 1..(j - 1) : accum[c][i] = Recorded(graph, graph[n].owner)

AddedRecords == SubSeq(xdotobj', Len(xdotobj) + 1, Len(xdotobj'))

\* C14: in export mode, an iteration that processes an operator with k inputs
\* adds the operator's own record first, exactly k edges input -> operator,
\* one per input in input order, exactly one edge operator -> first output,
\* and no other edge; an iteration on any other node adds no record.
C14_RecordsPerOperator ==
    [][(xphase = "loop" /\ xstack # <<>> /\ (xdot \/ xpng)
            /\ xstack[Len(xstack)] \notin xvisited) =>
        LET node == xstack[Len(xstack)]
            r == graph[node].root
            op == <<"op", r>>
            IsEdge(e) == e.rec = "edge"
            IsOwn(e) == e.rec = "node" /\ e.id = op
            IsIn(e) == e.rec = "edge" /\ e.dst = op
            IsOut(e) == e.rec = "edge" /\ e.src = op
            edgesIn == SelectSeq(AddedRecords, IsIn)
            edgesOut == SelectSeq(AddedRecords, IsOut)
        IN  IF HasRootFunction(graph, node)
            THEN /\ AddedRecords # <<>>
                 /\ IsOwn(AddedRecords[1])
                 /\ Len(SelectSeq(AddedRecords, IsOwn)) = 1
                 /\ Len(edgesIn) = Len(graph[r].inputs)
                 /\ \A i \in 1..Len(edgesIn) :
                        edgesIn[i].src = <<"var", graph[r].inputs[i]>>
                 /\ Len(edgesOut) = 1
                 /\ edgesOut[1].dst = <<"var", FirstOutput(graph, r)>>
                 /\ Len(SelectSeq(AddedRecords, IsEdge)) = Len(edgesIn) + 1
            ELSE AddedRecords = <<>>
      ]_vars

C14_Witness ==
    /\ xphase = "returned"
    /\ xdot \/ xpng
    /\ graph = AddGraph
    /\ Len(SelectSeq(xdotobj, LAMBDA e : e.rec = "edge")) = 6

\* the operator whose line produces the input m of another operator: the owner
\* of an output variable, the root function of a function used as an input
ProducerOf(g, m) ==
    IF IsOutput(g, m) THEN {g[m].owner}
    ELSE IF HasRootFunction(g, m) THEN {g[m].root}
    ELSE {}

\* C15: the returned text holds the operator lines in the reverse of the order
\* in which the loop generated them, so the line generated first, that of the
\* start node's root operator, is the last line; and every operator line is
\* preceded in the text by a line of each operator that owns one of its inputs.
C15_ReverseOrder ==
    xphase = "returned" =>
        /\ Len(xresult) = Len(xmodel) + 1
        /\ \A i \in 1..Len(xmodel) : xresult[Len(xresult) + 1 - i] = xmodel[i]
        /\ HasRootFunction(graph, xstart) =>
               xresult[Len(xresult)].op = graph[xstart].root
        /\ \A j \in 1..Len(xresult) :
               xresult[j].op # 0 =>
                   \A m \in Range(xresult[j].ins) :
                       \A f \in ProducerOf(graph, m) :
                           \E i \in 1..(j - 1) : xresult[i].op = f

C15_Witness ==
    /\ xphase = "returned"
    /\ Len(xmodel) >= 3
    /\ \E j \in 1..Len(xresult) :
          \E m \in Range(xresult[j].ins) : IsOutput(graph, m)

\* C16: with neither path given output_function_graph imports no backend,
\* makes no backend call and writes no file; no file is written before the
\* loop has ended; a call that returns has written the PNG file exactly once
\* if png_file_path was given and the raw DOT file exactly once if
\* dot_file_path was given, the PNG file first.
C16_BackendOnlyAsRequested ==
    /\ (~xdot /\ ~xpng) =>
           ~ximported /\ xphase # "import" /\ xdotobj = <<>> /\ xwrites = <<>>
    /\ xwrites # <<>> => xphase = "returned" /\ xstack = <<>>
    /\ xphase = "returned" =>
           /\ Count(xwrites, "png") = (IF xpng THEN 1 ELSE 0)
           /\ Count(xwrites, "dot") = (IF xdot THEN 1 ELSE 0)
           /\ Len(xwrites) = Count(xwrites, "png") + Count(xwrites, "dot")
           /\ (xdot /\ xpng) => xwrites[1] = "png"

C16_Witness ==
    /\ xphase = "returned"
    /\ ximported
    /\ xwrites = <<"png", "dot">>
    /\ Len(xmodel) >= 2

\* ------------------------------------------------------------------------
\* distributed.py: data_parallel_distributed_trainer
\* ------------------------------------------------------------------------

\* line 115: the bit width from which the gradients are not quantized
QuantizationLimit == 32

\* line 103: the default of num_quantization_bits
DefaultBits == 32

\* mutant: the test of line 115 written with <=
UseQuantizedIncl(bits) == bits <= QuantizationLimit

\* line 115: if (num_quantization_bits < 32)
UseQuantized(bits) == bits < QuantizationLimit

\* line 117: cntk_py.quantized_mpicommunicator(True, True, num_quantization_bits)
QuantizedCommunicator(bits) ==
    [fn |-> "quantized_mpicommunicator", args |-> <<TRUE, TRUE, bits>>]

\* line 122: cntk_py.mpicommunicator()
PlainCommunicator == [fn |-> "mpicommunicator", args |-> <<>>]

\* lines 116-119 and 121-124: the trainer that cntk_py is asked to create over
\* the communicator comm
TrainerCall(quantized, comm, use_async, start_count) ==
    [fn |-> IF quantized
            THEN "create_quantized_data_parallel_distributed_trainer"
            ELSE "create_data_parallel_distributed_trainer",
     comm |-> comm,
     use_async |-> use_async,
     start_count |-> start_count]

\* lines 103-124: one call; the communicator is created first (it is an
\* argument of the trainer's creation), then the trainer, which is returned
DataParallelDistributedTrainer(use_async, bits, start_count) ==
    /\ tphase = "idle"
    /\ targs' = [use_async |-> use_async, bits |-> bits, start_count |-> start_count]
    /\ LET comm == IF UseQuantized(bits)
                   THEN QuantizedCommunicator(bits)
                   ELSE PlainCommunicator
       IN  /\ tcomms' = Append(tcomms, comm)
           /\ ttrainers' = Append(ttrainers,
                                  TrainerCall(UseQuantized(bits), comm,
                                              use_async, start_count))
    /\ tphase' = "returned"
    /\ UNCHANGED <<graph, visitor, callers, status, start, stack, visited, accum,
                   passed, evals>>
    /\ UNCHANGED <<xvars, ximported, pvars>>

\* line 103: the call with no argument takes the defaults False, 32, 0
DataParallelDistributedTrainerDefault ==
    DataParallelDistributedTrainer(FALSE, DefaultBits, 0)

\* no graph is walked; the trainer is created once
InitTrainer ==
    /\ InitOn({AddGraph})
    /\ visitor = Nodes(graph)
    /\ callers = [c \in Calls |-> {}]

NextTrainer ==
    \/ \E a \in BOOLEAN, b \in 0..MaxBits, s \in 0..MaxSampleCount :
          DataParallelDistributedTrainer(a, b, s)
    \/ DataParallelDistributedTrainerDefault

SpecTrainer == InitTrainer /\ [][NextTrainer]_vars

====
